---- MODULE Spec2Model ----
(***************************************************************************)
(* Model of src/main.py (mokugyo rhythm game): the frame loop, the beat    *)
(* scheduler, the judgement engine, the gimmick effects and the scene     *)
(* state machine.                                                          *)
(*                                                                         *)
(* Time is exact rational arithmetic in ticks of 1/79000 s, the unit in    *)
(* which SPB = 60/158 s, the windows, the offsets step and the travel time *)
(* are all integers.  The window multipliers 1.4 / 1.0 / 0.6 are kept in   *)
(* tenths and every comparison is multiplied through by 10.                *)
(***************************************************************************)
EXTENDS Integers, Sequences, FiniteSets, TLC

\* ----------------------------------------------------------------- units
TicksPerSec == 79000
Ms == 79

\* ------------------------------------------------------ gameplay constants
BPM == 158
SPB == (60 * TicksPerSec) \div BPM
NOTE_TRAVEL_SEC == 126400
PERFECT_WINDOW == 3950
GOOD_WINDOW == 7110
OK_WINDOW == 11060
GRACE_EPS == 790
MISS_LIMIT_MAP == [easy |-> 12, normal |-> 6, hard |-> 1]
DIFF_WINDOW == [easy |-> 14, normal |-> 10, hard |-> 6]
HIDE_STEP == 4
NEW_GIMMICK_DISPLAY_TIME == 316000
START_PREP_DELAY == 126400
GIMMICK_COMBO_THRESHOLD == 20
YAKUBI_SPAWN_PERIOD == 10
OFFSET_STEP == 1580
DECOY_LEAD == NOTE_TRAVEL_SEC \div 2
LANE_X == 198
START_Y == -60
HITLINE_Y == 539

Difficulties == {"easy", "normal", "hard"}

SCENE_START == "start"
SCENE_SETTINGS == "settings"
SCENE_GAME == "game"
SCENE_GAMEOVER == "gameover"
SCENE_CLEAR == "clear"
Scenes == {SCENE_START, SCENE_SETTINGS, SCENE_GAME, SCENE_GAMEOVER, SCENE_CLEAR}

EffectKinds == {"shake_small", "shake_big", "rotate60", "flash", "slowmo",
                "lane_wobble", "ghost", "spawn_rush", "blackout", "invert"}
\* base durations of trigger_random_gimmick_by_name, in ticks
EffectBase == [shake_small |-> 126400, shake_big |-> 221200, rotate60 |-> 284400,
               flash |-> 47400, slowmo |-> 395000, lane_wobble |-> 316000,
               ghost |-> 316000, spawn_rush |-> 474000, blackout |-> 237000,
               invert |-> 316000]
NoChoice == "none"
opts == EffectKinds \cup {NoChoice}

None == -1

\* ----------------------------------------------------------------- bounds
\* the environment: frame durations (clock.tick), time between the main
\* loop's clock reads and render_game's, inputs per frame, length of a run
\* a frame of 7070 ticks (89.5 ms): twenty frames after a start with offset 0
\* the clock is exactly midway between the first two beats
FrameTicks == 7070
StallFrames == 9
MaxMenuFrames == 2
MaxPlayFrames == 26
MaxInputs == 6
MaxHazardFrames == 50
MaxHazardInputs == 3
MaxOffsetSteps == 1
MaxDecoys == 1
MaxProbeMs == 250
BgmLengthMs == 475
MaxLongFrames == 186
MaxLongHazardFrames == 101
MaxLongMisses == 1
MaxOffsetPresses == 51
MaxReplayFrames == 84
MaxMotionOffsets == 2
MaxIdleFrames == 70

FrameDt == FrameTicks
StallDt == StallFrames * FrameDt
FrameDts == {FrameDt, StallDt}
IntraDts == {0, FrameDt}
PlayHorizon == MaxPlayFrames * FrameDt
HazardHorizon == MaxHazardFrames * FrameDt
BGM_LENGTH == BgmLengthMs * Ms

VARIABLES
    scene, DIFFICULTY, offset_seconds, yakubi_mode, BGM,
    now, tick_time, dt, pc, menuFrames, inputs, last,
    start_time_s, prep_end_time, next_beat_time,
    spawn_index, spawned_target_times, note_spawn_counter,
    notes, combo, misses, hannya_visible, hannya_hidden_behind, judge_text,
    effects, triggered_gimmicks, new_gimmick_timer, gimmick_attempts,
    probe

settingsVars == <<DIFFICULTY, offset_seconds, yakubi_mode, BGM>>
clockVars == <<now, tick_time, dt>>
anchorVars == <<start_time_s, prep_end_time, next_beat_time>>
runVars == <<spawn_index, spawned_target_times, note_spawn_counter,
             notes, combo, misses, hannya_visible, hannya_hidden_behind, judge_text,
             effects, triggered_gimmicks, new_gimmick_timer, gimmick_attempts>>
boundVars == <<menuFrames, inputs>>
vars == <<scene, settingsVars, clockVars, pc, boundVars, last, anchorVars, runVars, probe>>

\* -------------------------------------------------------------- utilities
Max(a, b) == IF a >= b THEN a ELSE b
Min(a, b) == IF a <= b THEN a ELSE b
Abs(x) == IF x >= 0 THEN x ELSE -x
clamp(v, a, b) == Max(a, Min(b, v))
Truthy(x) == x # None /\ x # 0

\* ------------------------------------------------------------------ notes
Note(target_time, x, dummy) ==
    [target_time |-> target_time,
     spawn_time |-> target_time - NOTE_TRAVEL_SEC,
     x |-> x,
     dummy |-> dummy]

\* variant: the travelled fraction is not clamped to [0, 1]
NoteY_Unclamped(n, t_now) ==
    START_Y * NOTE_TRAVEL_SEC + (HITLINE_Y - START_Y) * (t_now - n.spawn_time)

\* Note.update: the y it assigns, as the exact multiple y * NOTE_TRAVEL_SEC
\* (p = clamp((t_now - spawn_time) / total, 0, 1) with total = NOTE_TRAVEL_SEC)
NoteY(n, t_now) ==
    START_Y * NOTE_TRAVEL_SEC
      + (HITLINE_Y - START_Y) * clamp(t_now - n.spawn_time, 0, NOTE_TRAVEL_SEC)

\* Note.update: the test that sets n.dead
NoteDead(n, t_now) ==
    (t_now - n.target_time) * 10 > OK_WINDOW * DIFF_WINDOW[DIFFICULTY] + GRACE_EPS * 10

\* the mutable run state that the game functions read and write, as one record
G == [spawn_index |-> spawn_index, spawned |-> spawned_target_times,
      counter |-> note_spawn_counter, notes |-> notes, combo |-> combo,
      misses |-> misses, hv |-> hannya_visible, hh |-> hannya_hidden_behind,
      jt |-> judge_text, effects |-> effects, log |-> triggered_gimmicks,
      timer |-> new_gimmick_timer, attempts |-> gimmick_attempts]

SetG(g) ==
    /\ spawn_index' = g.spawn_index
    /\ spawned_target_times' = g.spawned
    /\ note_spawn_counter' = g.counter
    /\ notes' = g.notes
    /\ combo' = g.combo
    /\ misses' = g.misses
    /\ hannya_visible' = g.hv
    /\ hannya_hidden_behind' = g.hh
    /\ judge_text' = g.jt
    /\ effects' = g.effects
    /\ triggered_gimmicks' = g.log
    /\ new_gimmick_timer' = g.timer
    /\ gimmick_attempts' = g.attempts

InSeq(x, s) == \E i \in 1..Len(s) : s[i] = x

\* --------------------------------------------------------------- gimmicks
\* variant: the notification timer is armed by every trigger
record_gimmick_Rearm(g, name) ==
    IF ~InSeq(name, g.log)
    THEN [g EXCEPT !.log = Append(@, name), !.timer = NEW_GIMMICK_DISPLAY_TIME]
    ELSE [g EXCEPT !.timer = NEW_GIMMICK_DISPLAY_TIME]

record_gimmick(g, name) ==
    IF ~InSeq(name, g.log)
    THEN [g EXCEPT !.log = Append(@, name), !.timer = NEW_GIMMICK_DISPLAY_TIME]
    ELSE g

\* intensity = 1.0 + (misses / max(1, limit)) * 1.5, applied to a base duration:
\* base * (1 + 3*misses / (2*limit)); exact for every base (multiples of 0.2 s)
Intensified(base, m) ==
    base + (base * 3 * m) \div (2 * Max(1, MISS_LIMIT_MAP[DIFFICULTY]))

\* trigger_random_gimmick_by_name with random.choice(opts) = choice
ApplyGimmick(g, choice) ==
    IF choice = NoChoice THEN g
    ELSE LET r == record_gimmick(g, choice)
         IN [r EXCEPT !.effects[choice] = Intensified(EffectBase[choice], g.misses)]

\* every outcome of trigger_random_gimmick_by_name; gimmick_attempts counts
\* the calls made since program start (history variable)
trigger_random_gimmick_by_name(g) ==
    { ApplyGimmick([g EXCEPT !.attempts = @ + 1], c) : c \in opts }

\* ------------------------------------------------------------- scheduling
\* variant: the hazard-mode test reads the spawn count before the increment
SpawnBeat_CountBefore(g, beat_time) ==
    LET h == [g EXCEPT !.notes = Append(@, Note(beat_time, LANE_X, FALSE)),
                       !.spawned = @ \cup {beat_time},
                       !.counter = @ + 1]
    IN IF yakubi_mode /\ g.counter % YAKUBI_SPAWN_PERIOD = 0
       THEN trigger_random_gimmick_by_name(h)
       ELSE {h}

\* one real note spawned for beat_time, with the hazard-mode trigger
SpawnBeat(g, beat_time) ==
    LET h == [g EXCEPT !.notes = Append(@, Note(beat_time, LANE_X, FALSE)),
                       !.spawned = @ \cup {beat_time},
                       !.counter = @ + 1]
    IN IF yakubi_mode /\ h.counter % YAKUBI_SPAWN_PERIOD = 0
       THEN trigger_random_gimmick_by_name(h)
       ELSE {h}

\* variant: the loop stops before a beat whose spawn time is exactly t_now
RECURSIVE ScheduleLoop_Strict(_, _)
ScheduleLoop_Strict(g, t_now) ==
    LET beat_time == next_beat_time + g.spawn_index * SPB
        spawn_time == beat_time - NOTE_TRAVEL_SEC
    IN IF spawn_time < t_now
       THEN LET after == IF beat_time \notin g.spawned
                         THEN SpawnBeat(g, beat_time)
                         ELSE {g}
            IN UNION { ScheduleLoop_Strict([h EXCEPT !.spawn_index = @ + 1], t_now) :
                         h \in after }
       ELSE {g}

RECURSIVE ScheduleLoop(_, _)
ScheduleLoop(g, t_now) ==
    LET beat_time == next_beat_time + g.spawn_index * SPB
        spawn_time == beat_time - NOTE_TRAVEL_SEC
    IN IF spawn_time <= t_now
       THEN LET after == IF beat_time \notin g.spawned
                         THEN SpawnBeat(g, beat_time)
                         ELSE {g}
            IN UNION { ScheduleLoop([h EXCEPT !.spawn_index = @ + 1], t_now) : h \in after }
       ELSE {g}

\* variant: every call rescans from beat 0 with no memory of earlier spawns
schedule_notes_up_to_Forgetful(g, t_now) ==
    IF next_beat_time = None THEN {g}
    ELSE ScheduleLoop([g EXCEPT !.spawn_index = 0, !.spawned = {}], t_now)

\* every outcome of schedule_notes_up_to(t_now)
schedule_notes_up_to(g, t_now) ==
    IF next_beat_time = None THEN {g} ELSE ScheduleLoop(g, t_now)

\* -------------------------------------------------------------- judgement
\* variant: the windows exclude their upper ends
compute_judgement_Strict(d, difficulty) ==
    LET w == DIFF_WINDOW[difficulty]
    IN IF d * 10 < PERFECT_WINDOW * w THEN "PERFECT"
       ELSE IF d * 10 < GOOD_WINDOW * w THEN "GOOD"
       ELSE IF d * 10 < OK_WINDOW * w THEN "OK"
       ELSE "MISS"

compute_judgement(d, difficulty) ==
    LET w == DIFF_WINDOW[difficulty]
    IN IF d * 10 <= PERFECT_WINDOW * w THEN "PERFECT"
       ELSE IF d * 10 <= GOOD_WINDOW * w THEN "GOOD"
       ELSE IF d * 10 <= OK_WINDOW * w THEN "OK"
       ELSE "MISS"

\* variant: on a tie the scan keeps the later note
RECURSIVE BestFrom_LastOnTie(_, _, _, _, _)
BestFrom_LastOnTie(ns, tnow, i, best, best_dt) ==
    IF i > Len(ns) THEN best
    ELSE IF ns[i].dummy THEN BestFrom_LastOnTie(ns, tnow, i + 1, best, best_dt)
    ELSE LET d == Abs(ns[i].target_time - tnow)
         IN IF best = 0 \/ d <= best_dt
            THEN BestFrom_LastOnTie(ns, tnow, i + 1, i, d)
            ELSE BestFrom_LastOnTie(ns, tnow, i + 1, best, best_dt)

\* variant: the scan does not skip decoys
RECURSIVE BestFrom_AnyNote(_, _, _, _, _)
BestFrom_AnyNote(ns, tnow, i, best, best_dt) ==
    IF i > Len(ns) THEN best
    ELSE LET d == Abs(ns[i].target_time - tnow)
         IN IF best = 0 \/ d < best_dt
            THEN BestFrom_AnyNote(ns, tnow, i + 1, i, d)
            ELSE BestFrom_AnyNote(ns, tnow, i + 1, best, best_dt)

\* the scan of hit_check: index of the first live real note of minimal
\* |target_time - tnow| (strict < keeps the earliest), 0 when there is none
RECURSIVE BestFrom(_, _, _, _, _)
BestFrom(ns, tnow, i, best, best_dt) ==
    IF i > Len(ns) THEN best
    ELSE IF ns[i].dummy THEN BestFrom(ns, tnow, i + 1, best, best_dt)
    ELSE LET d == Abs(ns[i].target_time - tnow)
         IN IF best = 0 \/ d < best_dt
            THEN BestFrom(ns, tnow, i + 1, i, d)
            ELSE BestFrom(ns, tnow, i + 1, best, best_dt)

BestNote(ns, tnow) == BestFrom(ns, tnow, 1, 0, 0)

RemoveAt(s, i) == [k \in 1..(Len(s) - 1) |-> IF k < i THEN s[k] ELSE s[k + 1]]

\* the miss bookkeeping shared by hit_check's two miss branches and
\* register_auto_miss
MissBook(g, text) ==
    LET m == g.misses + 1
    IN [g EXCEPT !.combo = 0,
                 !.misses = m,
                 !.jt = text,
                 !.hv = TRUE,
                 !.hh = IF m >= HIDE_STEP /\ m < MISS_LIMIT_MAP[DIFFICULTY]
                        THEN TRUE ELSE @]

\* variant: the combo test reads the combo before the increment
HitSuccess_ComboBefore(g, best, judg) ==
    LET h == [g EXCEPT !.notes = RemoveAt(@, best), !.combo = @ + 1, !.jt = judg]
    IN IF ~yakubi_mode /\ g.combo % GIMMICK_COMBO_THRESHOLD = 0
       THEN trigger_random_gimmick_by_name(h)
       ELSE {h}

\* variant: a successful hit leaves the judged note in the list
HitSuccess_KeepsNote(g, best, judg) ==
    LET h == [g EXCEPT !.combo = @ + 1, !.jt = judg]
    IN IF ~yakubi_mode /\ h.combo % GIMMICK_COMBO_THRESHOLD = 0
       THEN trigger_random_gimmick_by_name(h)
       ELSE {h}

\* a successful judgement of the note at index best
HitSuccess(g, best, judg) ==
    LET h == [g EXCEPT !.notes = RemoveAt(@, best), !.combo = @ + 1, !.jt = judg]
    IN IF ~yakubi_mode /\ h.combo % GIMMICK_COMBO_THRESHOLD = 0
       THEN trigger_random_gimmick_by_name(h)
       ELSE {h}

\* variant: during a blackout every hit is a miss
hit_check_Blind(g, tnow) ==
    LET best == BestNote(g.notes, tnow)
    IN IF best # 0 /\ g.effects["blackout"] = 0
       THEN LET judg == compute_judgement(Abs(g.notes[best].target_time - tnow), DIFFICULTY)
            IN IF judg # "MISS"
               THEN HitSuccess(g, best, judg)
               ELSE {MissBook(g, judg)}
       ELSE {MissBook(g, "MISS")}

\* variant: a hit judged MISS also removes the mis-timed note
hit_check_DropsMistimed(g, tnow) ==
    LET best == BestNote(g.notes, tnow)
    IN IF best # 0
       THEN LET judg == compute_judgement(Abs(g.notes[best].target_time - tnow), DIFFICULTY)
            IN IF judg # "MISS"
               THEN HitSuccess(g, best, judg)
               ELSE {MissBook([g EXCEPT !.notes = RemoveAt(@, best)], judg)}
       ELSE {MissBook(g, "MISS")}

\* every outcome of hit_check() at time tnow
hit_check(g, tnow) ==
    LET best == BestNote(g.notes, tnow)
    IN IF best # 0
       THEN LET judg == compute_judgement(Abs(g.notes[best].target_time - tnow), DIFFICULTY)
            IN IF judg # "MISS"
               THEN HitSuccess(g, best, judg)
               ELSE {MissBook(g, judg)}
       ELSE {MissBook(g, "MISS")}

\* variant: an automatic miss resets the combo but is not counted
register_auto_miss_Uncounted(g) == [g EXCEPT !.combo = 0, !.jt = "MISS"]

register_auto_miss(g) == MissBook(g, "MISS")

\* variant: a timed-out note registers its miss but stays in the list
RECURSIVE ExpireFrom_KeepsDead(_, _, _)
ExpireFrom_KeepsDead(g, rest, t_now) ==
    IF rest = <<>> THEN g
    ELSE LET n == Head(rest)
             k == [g EXCEPT !.notes = Append(@, n)]
         IN IF NoteDead(n, t_now)
            THEN ExpireFrom_KeepsDead(register_auto_miss(k), Tail(rest), t_now)
            ELSE ExpireFrom_KeepsDead(k, Tail(rest), t_now)

\* the "update notes and remove timed-out ones" loop of the main loop and of
\* render_game: every dead note is removed and registers one automatic miss
RECURSIVE ExpireFrom(_, _, _)
ExpireFrom(g, rest, t_now) ==
    IF rest = <<>> THEN g
    ELSE LET n == Head(rest)
         IN IF NoteDead(n, t_now)
            THEN ExpireFrom(register_auto_miss(g), Tail(rest), t_now)
            ELSE ExpireFrom([g EXCEPT !.notes = Append(@, n)], Tail(rest), t_now)

UpdateNotes(g, t_now) == ExpireFrom([g EXCEPT !.notes = <<>>], g.notes, t_now)

Decoys(ns) == { i \in 1..Len(ns) : ns[i].dummy }

\* "spawn dummy notes (spawn_rush)": random.random() < 0.03 or not
SpawnDummy(g, t_now) ==
    {g} \cup
    (IF g.effects["spawn_rush"] > 0 /\ Cardinality(Decoys(g.notes)) < MaxDecoys
     THEN {[g EXCEPT !.notes = Append(@, Note(t_now + DECOY_LEAD, LANE_X, TRUE))]}
     ELSE {})

\* ------------------------------------------------------------------- Init
\* the module-level initialisation, with the given settings
InitWith(difficulties, offsets, yakubis, bgms) ==
    /\ scene = SCENE_START
    /\ DIFFICULTY \in difficulties
    /\ offset_seconds \in offsets
    /\ yakubi_mode \in yakubis
    /\ BGM \in bgms
    /\ now = 0 /\ tick_time = 0 /\ dt = 0
    /\ pc = "tick" /\ menuFrames = 0 /\ inputs = 0 /\ last = "init"
    /\ start_time_s = None /\ prep_end_time = None /\ next_beat_time = None
    /\ spawn_index = 0 /\ spawned_target_times = {} /\ note_spawn_counter = 0
    /\ notes = <<>> /\ combo = 0 /\ misses = 0
    /\ hannya_visible = FALSE /\ hannya_hidden_behind = FALSE
    /\ judge_text = ""
    /\ effects = [k \in EffectKinds |-> 0]
    /\ triggered_gimmicks = <<>>
    /\ new_gimmick_timer = 0
    /\ gimmick_attempts = 0

NoProbe == [dt |-> 0, out |-> ""]

\* program start: DIFFICULTY = "normal", offset_seconds = 0.0, yakubi_mode =
\* False; the bgm asset is there or not
Init == InitWith({"normal"}, {0}, {FALSE}, BOOLEAN) /\ probe = NoProbe

\* --------------------------------------------------------- the frame loop
\* dt = clock.tick(FPS) / 1000.0 ; tnow = now_s(): the frame that began at
\* tick_time lasts d in all, whatever part of it the frame's own work took
TickBy(d) ==
    /\ pc = "tick"
    /\ now' = tick_time + d
    /\ dt' = d
    /\ tick_time' = tick_time + d
    /\ pc' = "events" /\ last' = "tick"
    /\ UNCHANGED <<scene, settingsVars, inputs, anchorVars, runVars, probe>>

\* a frame of a menu scene (title, settings, game over, clear)
MenuTick ==
    /\ scene # SCENE_GAME
    /\ menuFrames < MaxMenuFrames
    /\ menuFrames' = menuFrames + 1
    /\ TickBy(FrameDt)

\* a frame of SCENE_GAME, regular or stalled
GameTickWithin(horizon) ==
    /\ scene = SCENE_GAME
    /\ \E d \in FrameDts :
        /\ tick_time + d <= start_time_s + horizon
        /\ TickBy(d)
    /\ UNCHANGED menuFrames

GameTick == GameTickWithin(PlayHorizon)

\* one event taken from pygame.event.get()
Event(name) ==
    /\ pc = "events"
    /\ inputs < MaxInputs
    /\ inputs' = inputs + 1
    /\ pc' = pc
    /\ last' = name
    /\ UNCHANGED <<clockVars, menuFrames, probe>>

\* variant: a (re)start that keeps the miss count of the previous session
EnterPlaying_KeepsMisses(resetJudge) ==
    /\ notes' = <<>> /\ combo' = 0 /\ misses' = misses
    /\ hannya_visible' = FALSE /\ hannya_hidden_behind' = FALSE
    /\ start_time_s' = now
    /\ prep_end_time' = now + START_PREP_DELAY
    /\ next_beat_time' = now + START_PREP_DELAY + offset_seconds
    /\ spawn_index' = 0 /\ spawned_target_times' = {}
    /\ note_spawn_counter' = 0
    /\ judge_text' = IF resetJudge THEN "" ELSE judge_text
    /\ scene' = SCENE_GAME
    /\ UNCHANGED <<settingsVars, effects, triggered_gimmicks, new_gimmick_timer,
                   gimmick_attempts>>

\* the reset every handler that enters SCENE_GAME performs, play_bgm_once
\* included (it sets the same anchors again from the same clock)
EnterPlaying(resetJudge) ==
    /\ notes' = <<>> /\ combo' = 0 /\ misses' = 0
    /\ hannya_visible' = FALSE /\ hannya_hidden_behind' = FALSE
    /\ start_time_s' = now
    /\ prep_end_time' = now + START_PREP_DELAY
    /\ next_beat_time' = now + START_PREP_DELAY + offset_seconds
    /\ spawn_index' = 0 /\ spawned_target_times' = {}
    /\ note_spawn_counter' = 0
    /\ judge_text' = IF resetJudge THEN "" ELSE judge_text
    /\ scene' = SCENE_GAME
    /\ UNCHANGED <<settingsVars, effects, triggered_gimmicks, new_gimmick_timer,
                   gimmick_attempts>>

StartClick == scene = SCENE_START /\ Event("start_click") /\ EnterPlaying(TRUE)
StartEnter == scene = SCENE_START /\ Event("start_enter") /\ EnterPlaying(TRUE)
RestartClickGameover ==
    scene = SCENE_GAMEOVER /\ Event("restart_click_gameover") /\ EnterPlaying(FALSE)
RestartClickClear ==
    scene = SCENE_CLEAR /\ Event("restart_click_clear") /\ EnterPlaying(FALSE)
RestartEnter ==
    scene \in {SCENE_GAMEOVER, SCENE_CLEAR} /\ Event("restart_enter") /\ EnterPlaying(FALSE)

GoScene(s) ==
    /\ scene' = s
    /\ UNCHANGED <<settingsVars, anchorVars, runVars>>

\* Settings button / K_s from the title, the game-over and the clear screen
OpenSettings ==
    /\ scene \in {SCENE_START, SCENE_GAMEOVER, SCENE_CLEAR}
    /\ Event("open_settings") /\ GoScene(SCENE_SETTINGS)

\* Title button of the game-over and the clear screen
TitleClick ==
    /\ scene \in {SCENE_GAMEOVER, SCENE_CLEAR}
    /\ Event("title_click") /\ GoScene(SCENE_START)

\* Done button / ESC / Enter in the settings screen
SettingsDone ==
    /\ scene = SCENE_SETTINGS
    /\ Event("settings_done") /\ GoScene(SCENE_START)

Setting(name) ==
    /\ scene = SCENE_SETTINGS
    /\ Event(name)
    /\ UNCHANGED <<scene, BGM, anchorVars, runVars>>

DifficultyLeft ==
    /\ Setting("difficulty_left")
    /\ DIFFICULTY' = IF DIFFICULTY = "normal" THEN "easy"
                     ELSE IF DIFFICULTY = "hard" THEN "normal" ELSE DIFFICULTY
    /\ UNCHANGED <<offset_seconds, yakubi_mode>>

\* variant: K_RIGHT wraps around from hard to easy
DifficultyRight_Wrap ==
    /\ Setting("difficulty_right")
    /\ DIFFICULTY' = IF DIFFICULTY = "easy" THEN "normal"
                     ELSE IF DIFFICULTY = "normal" THEN "hard" ELSE "easy"
    /\ UNCHANGED <<offset_seconds, yakubi_mode>>

DifficultyRight ==
    /\ Setting("difficulty_right")
    /\ DIFFICULTY' = IF DIFFICULTY = "easy" THEN "normal"
                     ELSE IF DIFFICULTY = "normal" THEN "hard" ELSE DIFFICULTY
    /\ UNCHANGED <<offset_seconds, yakubi_mode>>

OffsetDown ==
    /\ Setting("offset_down")
    /\ offset_seconds - OFFSET_STEP >= -(MaxOffsetSteps * OFFSET_STEP)
    /\ offset_seconds' = offset_seconds - OFFSET_STEP
    /\ UNCHANGED <<DIFFICULTY, yakubi_mode>>

OffsetUp ==
    /\ Setting("offset_up")
    /\ offset_seconds + OFFSET_STEP <= MaxOffsetSteps * OFFSET_STEP
    /\ offset_seconds' = offset_seconds + OFFSET_STEP
    /\ UNCHANGED <<DIFFICULTY, yakubi_mode>>

\* checkbox click / K_y
ToggleYakubi ==
    /\ Setting("toggle_yakubi")
    /\ yakubi_mode' = ~yakubi_mode
    /\ UNCHANGED <<DIFFICULTY, offset_seconds>>

\* click on the mokugyo / K_SPACE while scene == SCENE_GAME
HitHandler ==
    /\ scene = SCENE_GAME
    /\ \E g \in hit_check(G, now) : SetG(g)
    /\ UNCHANGED <<scene, settingsVars, anchorVars>>

HitInput == Event("hit") /\ HitHandler

\* variant: the decay is not floored at zero
Decay_NoFloor(v, d) == IF v > 0 THEN v - d ELSE v

\* "Tick down effect timers & new gimmick timer"
Decay(v, d) == IF v > 0 THEN Max(0, v - d) ELSE v

DecayTimers(g, d) ==
    [g EXCEPT !.effects = [k \in EffectKinds |-> Decay(g.effects[k], d)],
              !.timer = Decay(g.timer, d)]

InPrep(t) == Truthy(prep_end_time) /\ t < prep_end_time

\* "BGM end -> CLEAR"
\* variant: the prep delay is not added to the track length
BgmEnded_NoPrep(t) ==
    BGM /\ Truthy(BGM_LENGTH) /\ Truthy(start_time_s)
        /\ t - start_time_s > BGM_LENGTH

BgmEnded(t) ==
    BGM /\ Truthy(BGM_LENGTH) /\ Truthy(start_time_s)
        /\ t - start_time_s > BGM_LENGTH + START_PREP_DELAY

\* variant: the track's end is tested last and wins over the miss limit
GameFrame_ClearWins(g0, t) ==
    { <<IF g.misses >= MISS_LIMIT_MAP[DIFFICULTY] THEN [g EXCEPT !.hh = TRUE] ELSE g,
        IF BgmEnded(t) THEN SCENE_CLEAR
        ELSE IF g.misses >= MISS_LIMIT_MAP[DIFFICULTY] THEN SCENE_GAMEOVER ELSE SCENE_GAME,
        ~(g.misses >= MISS_LIMIT_MAP[DIFFICULTY])>> :
      g \in UNION { SpawnDummy(UpdateNotes(s, t), t) : s \in schedule_notes_up_to(g0, t) } }

\* the SCENE_GAME branch of the main loop after the prep test, up to the
\* call of render_game: the set of <<run state, scene, render_game called>>
GameFrame(g0, t) ==
    { <<IF g.misses >= MISS_LIMIT_MAP[DIFFICULTY] THEN [g EXCEPT !.hh = TRUE] ELSE g,
        IF g.misses >= MISS_LIMIT_MAP[DIFFICULTY] THEN SCENE_GAMEOVER
        ELSE IF BgmEnded(t) THEN SCENE_CLEAR ELSE SCENE_GAME,
        ~(g.misses >= MISS_LIMIT_MAP[DIFFICULTY])>> :
      g \in UNION { SpawnDummy(UpdateNotes(s, t), t) : s \in schedule_notes_up_to(g0, t) } }

\* the rest of one iteration of `while running` after the event loop
FrameBody ==
    /\ pc = "events"
    /\ LET g0 == DecayTimers(G, dt)
       IN IF scene # SCENE_GAME
          THEN SetG(g0) /\ scene' = scene /\ pc' = "tick" /\ last' = "frame_menu"
          ELSE IF InPrep(now)
          THEN SetG(g0) /\ scene' = scene /\ pc' = "render" /\ last' = "frame_prep"
          ELSE \E r \in GameFrame(g0, now) :
                 /\ SetG(r[1])
                 /\ scene' = r[2]
                 /\ pc' = IF r[3] THEN "render" ELSE "tick"
                 /\ last' = "frame_play"
    /\ UNCHANGED <<settingsVars, clockVars, boundVars, anchorVars, probe>>

\* render_game(): tnow = now_s(), schedule, update/expire, dummy spawn
render_game(g0, tnow) ==
    UNION { SpawnDummy(UpdateNotes(s, tnow), tnow) :
            s \in (IF next_beat_time # None THEN schedule_notes_up_to(g0, tnow) ELSE {g0}) }

RenderGame ==
    /\ pc = "render"
    /\ \E d \in IntraDts :
        /\ now' = now + d
        /\ \E g \in render_game(G, now + d) : SetG(g)
    /\ pc' = "tick" /\ last' = "render"
    /\ UNCHANGED <<scene, settingsVars, tick_time, dt, boundVars, anchorVars, probe>>

Next ==
    \/ MenuTick
    \/ GameTick
    \/ StartClick
    \/ StartEnter
    \/ RestartClickGameover
    \/ RestartClickClear
    \/ RestartEnter
    \/ OpenSettings
    \/ TitleClick
    \/ SettingsDone
    \/ DifficultyLeft
    \/ DifficultyRight
    \/ OffsetDown
    \/ OffsetUp
    \/ ToggleYakubi
    \/ HitInput
    \/ FrameBody
    \/ RenderGame

Spec == Init /\ [][Next]_vars

\* ------------------------------------------------------- hazard-mode runs
\* Long runs of a player who has switched hazard mode (yakubi) on in the
\* settings screen, perhaps raised the offset by one step there, and then
\* only starts, hits and restarts: the runs in which gimmicks trigger on the
\* 10th spawn and decoy notes appear.  The horizon bounds the whole run.
InitHazard == InitWith({"normal"}, {0, OFFSET_STEP}, {TRUE}, {FALSE}) /\ probe = NoProbe

HazardTick == GameTickWithin(HazardHorizon - start_time_s)

HazardInput == inputs < MaxHazardInputs

NextHazard ==
    \/ MenuTick
    \/ HazardTick
    \/ (HazardInput /\ StartEnter)
    \/ (HazardInput /\ RestartEnter)
    \/ (HazardInput /\ TitleClick)
    \/ (HazardInput /\ HitInput)
    \/ FrameBody
    \/ RenderGame

SpecHazard == InitHazard /\ [][NextHazard]_vars

\* ------------------------------------------------------------ long runs
\* One session of regular frames played by a player who strikes a note only
\* in a frame where it is judged PERFECT and lets at most MaxLongMisses notes
\* pass: long enough for combo 40 with hazard mode off, and for the 20th
\* spawn and combo 20 with hazard mode on.  render_game reads the same clock
\* value as the main loop, and the 3 % draw for a decoy succeeds only in the
\* step that triggered a gimmick.
InitLong == InitWith({"normal"}, {0}, BOOLEAN, {FALSE}) /\ probe = NoProbe

LongHorizon == (IF yakubi_mode THEN MaxLongHazardFrames ELSE MaxLongFrames) * FrameDt

LongTick ==
    /\ scene = SCENE_GAME
    /\ tick_time + FrameDt <= LongHorizon
    /\ TickBy(FrameDt)
    /\ UNCHANGED menuFrames

CanStrikePerfect ==
    /\ scene = SCENE_GAME
    /\ LET b == BestNote(notes, now)
       IN /\ b # 0
          /\ compute_judgement(Abs(notes[b].target_time - now), DIFFICULTY) = "PERFECT"

\* K_SPACE pressed in a frame where the nearest note is within the PERFECT window
PerfectHit ==
    /\ pc = "events"
    /\ CanStrikePerfect
    /\ pc' = pc /\ last' = "hit"
    /\ UNCHANGED <<clockVars, boundVars, probe>>
    /\ HitHandler

\* the player lets a note pass only while fewer than MaxLongMisses are missed
Diligent == CanStrikePerfect => misses < MaxLongMisses

\* a decoy is drawn only in a step that made a gimmick-selection attempt
RareDraw ==
    Len(SelectSeq(notes', LAMBDA n : n.dummy)) > Len(SelectSeq(notes, LAMBDA n : n.dummy))
        => gimmick_attempts' > gimmick_attempts

NextLong ==
    \/ (menuFrames = 0 /\ MenuTick)
    \/ LongTick
    \/ (inputs = 0 /\ StartEnter)
    \/ PerfectHit
    \/ (Diligent /\ FrameBody /\ RareDraw)
    \/ (RenderGame /\ now' = now /\ RareDraw)

SpecLong == InitLong /\ [][NextLong]_vars

\* --------------------------------------------------- a session replayed
\* Hazard mode, normal difficulty, regular frames: a first session in which
\* the player never strikes, so that the 10th spawn triggers a gimmick with
\* five misses on the count and the session fails; then Enter on the
\* game-over screen and a second session played as in the long runs, up to
\* its own 10th spawn.
InitReplay == InitWith({"normal"}, {0}, {TRUE}, {FALSE}) /\ probe = NoProbe

ReplayTick ==
    /\ scene = SCENE_GAME
    /\ tick_time + FrameDt <= MaxReplayFrames * FrameDt
    /\ TickBy(FrameDt)
    /\ UNCHANGED menuFrames

NextReplay ==
    \/ MenuTick
    \/ ReplayTick
    \/ (inputs = 0 /\ StartEnter)
    \/ (inputs = 1 /\ RestartEnter)
    \/ (inputs = 2 /\ PerfectHit)
    \/ ((inputs = 2 => Diligent) /\ FrameBody /\ RareDraw)
    \/ (RenderGame /\ now' = now /\ RareDraw)

SpecReplay == InitReplay /\ [][NextReplay]_vars

\* ------------------------------------------------- the settings screen
\* K_LEFTBRACKET / K_RIGHTBRACKET pressed any number of times in SETTINGS,
\* up to MaxOffsetPresses more one way than the other.
InitOffset == InitWith({"normal"}, {0}, {FALSE}, {FALSE}) /\ probe = NoProbe

OffsetKey(k, name) ==
    /\ scene = SCENE_SETTINGS
    /\ pc = "events"
    /\ Abs(offset_seconds + k) <= MaxOffsetPresses * OFFSET_STEP
    /\ offset_seconds' = offset_seconds + k
    /\ last' = name
    /\ UNCHANGED <<scene, DIFFICULTY, yakubi_mode, BGM, clockVars, pc, boundVars,
                   anchorVars, runVars, probe>>

LeftBracket == OffsetKey(-OFFSET_STEP, "offset_down")
RightBracket == OffsetKey(OFFSET_STEP, "offset_up")

NextOffset ==
    \/ MenuTick
    \/ OpenSettings
    \/ SettingsDone
    \/ LeftBracket
    \/ RightBracket
    \/ FrameBody

SpecOffset == InitOffset /\ [][NextOffset]_vars

\* -------------------------------------------------------- an idle player
\* The title screen after the player has chosen difficulty and hazard mode
\* in the settings screen; the player starts a session and then gives no
\* input at all.  The main loop never blocks: every iteration ends and the
\* next one begins, so the frame steps are weakly fair.  A session is
\* followed for MaxIdleFrames frames; the 3 % draw for a decoy succeeds only
\* in a step that triggered a gimmick.
InitIdle == InitWith(Difficulties, {0}, BOOLEAN, BOOLEAN) /\ probe = NoProbe

IdleTick == GameTickWithin(MaxIdleFrames * FrameDt)

LoopRuns == IdleTick \/ (FrameBody /\ RareDraw) \/ (RenderGame /\ RareDraw)

NextIdle ==
    \/ MenuTick
    \/ StartEnter
    \/ IdleTick
    \/ (FrameBody /\ RareDraw)
    \/ (RenderGame /\ RareDraw)

SpecIdle == InitIdle /\ [][NextIdle]_vars /\ WF_vars(LoopRuns)

\* ------------------------------------------------------ Note.update alone
\* One note, real or decoy, updated frame after frame from before its spawn
\* time until after its target time, with any one gimmick triggered at some
\* point on the way.  probe holds the note, the clock value of its last
\* update and the y that update assigned (initially start_y).
MotionTargets ==
    { NOTE_TRAVEL_SEC + 2 * FrameDt + j * OFFSET_STEP : j \in 0..MaxMotionOffsets }
        \cup { 20 * FrameDt }

InitMotion ==
    /\ InitWith({"normal"}, {0}, {TRUE}, {FALSE})
    /\ \E target \in MotionTargets, dummy \in BOOLEAN :
          probe = [note |-> Note(target, LANE_X, dummy), t |-> 0,
                   y |-> START_Y * NOTE_TRAVEL_SEC]

\* n.update(t_now) in a later frame
MotionUpdate ==
    /\ \E d \in FrameDts :
          /\ probe.t + d <= probe.note.target_time + StallDt
          /\ probe' = [probe EXCEPT !.t = @ + d, !.y = NoteY(probe.note, probe.t + d)]
    /\ UNCHANGED <<scene, settingsVars, clockVars, pc, boundVars, last, anchorVars, runVars>>

\* a gimmick triggered while the note is on its way
MotionTrigger ==
    /\ gimmick_attempts = 0
    /\ \E g \in trigger_random_gimmick_by_name(G) : SetG(g)
    /\ UNCHANGED <<scene, settingsVars, clockVars, pc, boundVars, last, anchorVars, probe>>

NextMotion == MotionUpdate \/ MotionTrigger

SpecMotion == InitMotion /\ [][NextMotion]_vars

\* ------------------------------------------------- compute_judgement alone
\* The classifier applied to every delta of a whole number of milliseconds
\* up to MaxProbeMs, for each difficulty.
InitJudge ==
    /\ InitWith(Difficulties, {0}, {FALSE}, {FALSE})
    /\ \E k \in 0..MaxProbeMs : probe = [dt |-> k * Ms, out |-> ""]

Judge ==
    /\ probe.out = ""
    /\ probe' = [probe EXCEPT !.out = compute_judgement(probe.dt, DIFFICULTY)]
    /\ UNCHANGED <<scene, settingsVars, clockVars, pc, boundVars, last, anchorVars, runVars>>

NextJudge == Judge

SpecJudge == InitJudge /\ [][NextJudge]_vars

\* ===================================================================
\* Properties
\* ===================================================================
RealIdx(ns) == { i \in 1..Len(ns) : ~ns[i].dummy }
RealTargets(ns) == { ns[i].target_time : i \in RealIdx(ns) }
IsDummy(n) == n.dummy
DecoySeq(ns) == SelectSeq(ns, IsDummy)
Limit == MISS_LIMIT_MAP[DIFFICULTY]

\* the number of beats n >= 0 with anchor + n*SPB - NOTE_TRAVEL_SEC <= t
BeatsDue(t) ==
    IF next_beat_time = None \/ t < next_beat_time - NOTE_TRAVEL_SEC THEN 0
    ELSE ((t - (next_beat_time - NOTE_TRAVEL_SEC)) \div SPB) + 1

\* C1: within a session no beat is ever spawned twice: the live real notes
\* have pairwise different target times, every spawn recorded a new target
\* time (spawn counter = size of spawned_target_times = spawn_index), and a
\* second schedule_notes_up_to call with the same now returns the state of
\* the first unchanged, while the first adds one real note per beat index it
\* passes.
C1_NoBeatSpawnedTwice ==
    /\ \A i, j \in RealIdx(notes) :
         i # j => notes[i].target_time # notes[j].target_time
    /\ note_spawn_counter = Cardinality(spawned_target_times)
    /\ note_spawn_counter = spawn_index
    /\ next_beat_time # None =>
         \A t \in {now, now + StallDt} :
           \A s \in schedule_notes_up_to(G, t) :
             /\ schedule_notes_up_to(s, t) = {s}
             /\ Cardinality(RealIdx(s.notes)) - Cardinality(RealIdx(notes))
                  = s.spawn_index - spawn_index
             /\ \A i, j \in RealIdx(s.notes) :
                  i # j => s.notes[i].target_time # s.notes[j].target_time

\* C1 witness: render_game has just made the frame's second scheduling call
\* with the same clock value as the main loop's, five beats into a session.
C1_Witness ==
    /\ last = "render" /\ now = tick_time
    /\ scene = SCENE_GAME /\ ~InPrep(now)
    /\ spawn_index >= 5

\* C2 (as claimed): the session fails on the very miss that reaches the miss
\* limit, so while the scene is GAME miss_count never exceeds the limit.
C2_MissesWithinLimit ==
    scene = SCENE_GAME => misses <= Limit

\* C3 (as claimed): during the prep countdown the scheduler never runs, so
\* nothing has been spawned: spawn_index, note_spawn_counter,
\* spawned_target_times and the note list are as the start left them.
C3_NoSpawnInPrep ==
    (scene = SCENE_GAME /\ InPrep(now)) =>
        /\ spawn_index = 0
        /\ note_spawn_counter = 0
        /\ spawned_target_times = {}
        /\ notes = <<>>

\* C4 (as claimed): a hit input received during the prep countdown changes
\* neither combo, miss_count, the note list, the specter flags nor the
\* judgement text.
C4_PrepHitNoEffect ==
    [][(last' = "hit" /\ InPrep(now)) =>
         UNCHANGED <<combo, misses, notes, hannya_visible, hannya_hidden_behind,
                     judge_text>>]_vars

\* C5 (as claimed): in a frame's update/expiry pass (main loop or
\* render_game) miss_count grows by exactly the number of real notes that
\* were removed, and combo and miss_count are untouched when no real note was
\* removed: the expiry of a decoy is silent.
C5_DecoyExpirySilent ==
    [][(last' \in {"frame_play", "render"}) =>
         LET gone == RealTargets(notes) \ RealTargets(notes')
         IN /\ misses' - misses = Cardinality(gone)
            /\ (gone = {} => combo' = combo)]_vars

\* the index of the live real note nearest to t, the earliest on a tie
Dist(ns, i, t) == Abs(ns[i].target_time - t)
Nearest(ns, t) ==
    CHOOSE i \in RealIdx(ns) :
        \A j \in RealIdx(ns) :
            \/ Dist(ns, i, t) < Dist(ns, j, t)
            \/ (Dist(ns, i, t) = Dist(ns, j, t) /\ i <= j)

\* s without its i-th element
IsWithout(r, s, i) ==
    /\ Len(r) = Len(s) - 1
    /\ \A k \in 1..Len(r) : r[k] = IF k < i THEN s[k] ELSE s[k + 1]

\* C6: the note a hit judges is the live non-decoy note of minimal
\* |target_time - now|, the earliest in the list on a tie; when it is judged
\* PERFECT, GOOD or OK exactly that note leaves the list, combo grows by one
\* and miss_count stays.
C6_HitJudgesNearest ==
    [][(last' = "hit" /\ RealIdx(notes) # {}) =>
         LET i == Nearest(notes, now)
             judg == compute_judgement(Dist(notes, i, now), DIFFICULTY)
         IN judg # "MISS" =>
              /\ IsWithout(notes', notes, i)
              /\ combo' = combo + 1
              /\ misses' = misses
              /\ judge_text' = judg]_vars

\* C6 witness: a hit exactly midway between two live real notes has been
\* judged OK (easy): the earlier note is gone, the later one is still there.
C6_Witness ==
    /\ last = "hit" /\ judge_text = "OK" /\ combo >= 1
    /\ 2 * (now - (next_beat_time + SPB)) = -SPB
    /\ next_beat_time \in spawned_target_times
    /\ next_beat_time \notin RealTargets(notes)
    /\ (next_beat_time + SPB) \in RealTargets(notes)

\* C7: a hit never judges or removes a decoy: the decoys in the list are the
\* same before and after every hit, and with only decoys alive the hit is a
\* miss with no active note (combo 0, one more miss, list unchanged).
C7_DecoysNeverJudged ==
    [][(last' = "hit") =>
         /\ DecoySeq(notes') = DecoySeq(notes)
         /\ RealIdx(notes) = {} =>
              /\ notes' = notes
              /\ combo' = 0
              /\ misses' = misses + 1
              /\ judge_text' = "MISS"]_vars

\* C7 witness: a hit has just been judged a miss while the only live notes
\* are decoys.
C7_Witness ==
    /\ last = "hit"
    /\ notes # <<>>
    /\ RealIdx(notes) = {}
    /\ judge_text = "MISS" /\ misses >= 1

\* the claimed classification: dt within w * (h/100) seconds, w in tenths
WindowTenths == [easy |-> 14, normal |-> 10, hard |-> 6]
Within(d, difficulty, h) == d * 1000 <= WindowTenths[difficulty] * h * TicksPerSec
Claimed(d, difficulty) ==
    IF Within(d, difficulty, 5) THEN "PERFECT"
    ELSE IF Within(d, difficulty, 9) THEN "GOOD"
    ELSE IF Within(d, difficulty, 14) THEN "OK"
    ELSE "MISS"
Rank(j) == CASE j = "PERFECT" -> 3 [] j = "GOOD" -> 2 [] j = "OK" -> 1 [] OTHER -> 0

\* C8: compute_judgement gives PERFECT iff dt <= 0.05w, GOOD iff
\* 0.05w < dt <= 0.09w, OK iff 0.09w < dt <= 0.14w, else MISS, with w = 1.4,
\* 1.0, 0.6 for easy, normal, hard; and for every dt the result on easy is at
\* least as good as on normal, and that as good as on hard.
C8_JudgementWindows ==
    probe.out # "" =>
        /\ probe.out = Claimed(probe.dt, DIFFICULTY)
        /\ Rank(compute_judgement(probe.dt, "easy"))
             >= Rank(compute_judgement(probe.dt, "normal"))
        /\ Rank(compute_judgement(probe.dt, "normal"))
             >= Rank(compute_judgement(probe.dt, "hard"))

\* C8 witness: a delta judged GOOD on hard that is PERFECT on easy.
C8_Witness ==
    /\ probe.out = "GOOD" /\ DIFFICULTY = "hard"
    /\ compute_judgement(probe.dt, "easy") = "PERFECT"

\* C9: right after a scheduling call at time now the beats spawned in the
\* session are exactly n = 0 .. BeatsDue(now) - 1, once each, with
\* target_time = anchor + n*SPB, anchor = prep_end_time + offset; the live
\* real notes are in increasing beat order, each with spawn_time =
\* target_time - NOTE_TRAVEL_SEC; with offset 0 beat 0 is due at prep_end_time.
C9_SpawnedExactlyDueBeats ==
    last \in {"frame_play", "render"} =>
        /\ next_beat_time = prep_end_time + offset_seconds
        /\ spawn_index = BeatsDue(now)
        /\ note_spawn_counter = BeatsDue(now)
        /\ spawned_target_times =
             { next_beat_time + n * SPB : n \in 0..(BeatsDue(now) - 1) }
        /\ \A i \in RealIdx(notes) :
             /\ notes[i].target_time \in spawned_target_times
             /\ notes[i].spawn_time = notes[i].target_time - NOTE_TRAVEL_SEC
             /\ notes[i].spawn_time <= now
        /\ \A i, j \in RealIdx(notes) :
             i < j => notes[i].target_time < notes[j].target_time
        /\ (offset_seconds = 0 /\ BeatsDue(now) > 0) =>
             prep_end_time \in spawned_target_times

\* C9 witness: the main loop has just scheduled after a stalled frame, six
\* beats into the session.
C9_Witness ==
    /\ last = "frame_play" /\ dt = StallDt
    /\ spawn_index >= 6

\* C10: every step that takes the scene into GAME leaves the note list
\* empty, combo, miss_count, spawn_index and note_spawn_counter 0,
\* spawned_target_times empty, the specter flags false, start_time = now,
\* prep_end_time = start_time + START_PREP_DELAY and the beat anchor =
\* prep_end_time + offset.
C10_EnterPlayingResets ==
    [][(scene # SCENE_GAME /\ scene' = SCENE_GAME) =>
         /\ notes' = <<>>
         /\ combo' = 0 /\ misses' = 0
         /\ spawn_index' = 0 /\ note_spawn_counter' = 0
         /\ spawned_target_times' = {}
         /\ ~hannya_visible' /\ ~hannya_hidden_behind'
         /\ start_time_s' = now'
         /\ prep_end_time' = start_time_s' + START_PREP_DELAY
         /\ next_beat_time' = prep_end_time' + offset_seconds']_vars

\* C10 witness: a session has just been restarted from the game-over screen.
C10_Witness ==
    /\ last = "restart_click_gameover"
    /\ scene = SCENE_GAME

\* C11 (as claimed): every step that takes the scene into GAME leaves every
\* effect duration at 0, whatever effects were active before.
C11_EffectsResetOnStart ==
    [][(scene # SCENE_GAME /\ scene' = SCENE_GAME) =>
         \A k \in EffectKinds : effects'[k] = 0]_vars

\* C12 (as claimed): a hit judged in a frame of active play sees a note list
\* already scheduled and expired for that frame's time: every beat due at now
\* has been spawned and no note of the list is past its grace time.
C12_HitSeesCurrentNotes ==
    [][(last' = "hit" /\ ~InPrep(now)) =>
         /\ spawn_index = BeatsDue(now)
         /\ \A i \in 1..Len(notes) : ~NoteDead(notes[i], now)]_vars

IsReal(n) == ~n.dummy
TimingView(g) ==
    [spawn_index |-> g.spawn_index, spawned |-> g.spawned, counter |-> g.counter,
     real |-> SelectSeq(g.notes, IsReal)]
JudgeView(g) ==
    [jt |-> g.jt, real |-> SelectSeq(g.notes, IsReal), combo |-> g.combo,
     misses |-> g.misses]

\* the run state with other effect durations and other decoys: no effect
\* active and no decoy, or every effect active and a decoy due right now
Alt(g) ==
    { [g EXCEPT !.effects = [k \in EffectKinds |-> 0],
                !.notes = SelectSeq(g.notes, IsReal)],
      [g EXCEPT !.effects = EffectBase,
                !.notes = <<Note(now, LANE_X, TRUE)>> \o g.notes] }

\* C13: effects never touch timing. Every live real note has spawn_time =
\* target_time - NOTE_TRAVEL_SEC and a target on the beat grid; at the start
\* of each frame, from two states that differ only in effect durations and
\* decoys the scheduler spawns the same beats and real notes, and a hit at the
\* same time gets the
\* same judgement, real notes, combo and misses; a gimmick trigger and the
\* timer decay leave spawn bookkeeping and real notes as they are.
C13_EffectsDoNotTouchTiming ==
    /\ \A i \in RealIdx(notes) :
         /\ notes[i].spawn_time = notes[i].target_time - NOTE_TRAVEL_SEC
         /\ (notes[i].target_time - next_beat_time) % SPB = 0
         /\ notes[i].target_time \in spawned_target_times
    /\ (scene = SCENE_GAME /\ last = "tick") =>
         /\ \A h \in Alt(G) :
              /\ \A t \in {now, now + StallDt} :
                   { TimingView(s) : s \in schedule_notes_up_to(h, t) }
                     = { TimingView(s) : s \in schedule_notes_up_to(G, t) }
              /\ { JudgeView(s) : s \in hit_check(h, now) }
                   = { JudgeView(s) : s \in hit_check(G, now) }
         /\ \A s \in trigger_random_gimmick_by_name(G) \cup {DecayTimers(G, dt)} :
              TimingView(s) = TimingView(G)

\* C13 witness: a hit has been judged other than MISS while an effect is
\* active and a decoy is in the list.
C13_Witness ==
    /\ last = "hit" /\ judge_text # "MISS"
    /\ \E k \in EffectKinds : effects[k] > 0
    /\ \E i \in 1..Len(notes) : notes[i].dummy

\* C14: with hazard mode off a step makes a gimmick-selection attempt iff it
\* is a successful hit that brings combo to a multiple of 20, and then
\* exactly one.
C14_AttemptAtEveryTwentiethCombo ==
    [][~yakubi_mode =>
         gimmick_attempts' - gimmick_attempts =
            IF last' = "hit" /\ combo' = combo + 1
                  /\ combo' % GIMMICK_COMBO_THRESHOLD = 0
            THEN 1 ELSE 0]_vars

\* C14 witness: the hit that brought combo to 40 made the second attempt of
\* the run.
C14_Witness ==
    /\ ~yakubi_mode /\ last = "hit"
    /\ combo = 40 /\ gimmick_attempts = 2

\* C15: with hazard mode on a step makes one gimmick-selection attempt for
\* each multiple of 10 the spawn counter passes and none otherwise (so none on
\* a hit), and the spawn counter grows by the number of new real notes only.
C15_AttemptAtEveryTenthSpawn ==
    [][yakubi_mode =>
         /\ gimmick_attempts' - gimmick_attempts =
              Cardinality({ n \in (note_spawn_counter + 1)..note_spawn_counter' :
                              n % YAKUBI_SPAWN_PERIOD = 0 })
         /\ note_spawn_counter' >= note_spawn_counter =>
              note_spawn_counter' - note_spawn_counter =
                 Cardinality(RealTargets(notes') \ RealTargets(notes))]_vars

\* C15 witness: in hazard mode the hit that brought combo to 20 was made
\* after the 20th spawn: two attempts so far, both from spawns.
C15_Witness ==
    /\ yakubi_mode /\ last = "hit"
    /\ combo = 20 /\ note_spawn_counter >= 20
    /\ gimmick_attempts = 2

IsPrefix(s, t) == Len(s) <= Len(t) /\ \A i \in 1..Len(s) : s[i] = t[i]
FrameSteps == {"frame_menu", "frame_prep", "frame_play"}

\* C16: the gimmick log holds no kind twice and only grows at its end; the
\* notification timer is set to NEW_GIMMICK_DISPLAY_TIME exactly by the steps
\* that append a kind, and any other step, a trigger of a known kind
\* included, leaves the log as it is and the timer to the frame's decay.
C16_LogAppendOnlyNoDuplicate ==
    [][/\ \A i, j \in 1..Len(triggered_gimmicks') :
            i # j => triggered_gimmicks'[i] # triggered_gimmicks'[j]
       /\ IsPrefix(triggered_gimmicks, triggered_gimmicks')
       /\ IF triggered_gimmicks' # triggered_gimmicks
          THEN /\ new_gimmick_timer' = NEW_GIMMICK_DISPLAY_TIME
               /\ gimmick_attempts' > gimmick_attempts
          ELSE new_gimmick_timer' =
                 IF last' \in FrameSteps THEN Decay(new_gimmick_timer, dt)
                 ELSE new_gimmick_timer]_vars

\* C16 witness: the second trigger of the run chose the kind already in the
\* log after its duration and the notification timer had decayed to 0: the
\* effect is at its full duration again, the log has one entry, the timer is 0.
C16_Witness ==
    /\ gimmick_attempts = 2
    /\ Len(triggered_gimmicks) = 1
    /\ effects[triggered_gimmicks[1]] = EffectBase[triggered_gimmicks[1]]
    /\ new_gimmick_timer = 0

\* C17 (as claimed): every step into the START scene leaves the gimmick log
\* empty.
C17_LogResetOnTitle ==
    [][(scene # SCENE_START /\ scene' = SCENE_START) =>
         triggered_gimmicks' = <<>>]_vars

\* C18: effect durations and the notification timer are never negative; in
\* every scene the frame step takes each of them to max(0, v - dt) when v > 0
\* and no other step changes them, except that a step with a gimmick attempt
\* may set one effect to its triggered duration and a step that logs a new
\* kind sets the notification timer.
C18_DecayFlooredAtZero ==
    [][LET Expected(v) == IF last' \in FrameSteps THEN Decay(v, dt) ELSE v
           changed == { k \in EffectKinds : effects'[k] # Expected(effects[k]) }
       IN /\ \A k \in EffectKinds : effects[k] >= 0 /\ effects'[k] >= 0
          /\ new_gimmick_timer >= 0 /\ new_gimmick_timer' >= 0
          /\ Cardinality(changed) <= gimmick_attempts' - gimmick_attempts
          /\ \A k \in changed :
               \E m \in 0..Max(misses, misses') :
                  effects'[k] = Intensified(EffectBase[k], m)
          /\ new_gimmick_timer' # Expected(new_gimmick_timer) =>
               /\ new_gimmick_timer' = NEW_GIMMICK_DISPLAY_TIME
               /\ Len(triggered_gimmicks') > Len(triggered_gimmicks)]_vars

\* C18 witness: a frame of the game-over screen has decayed an effect that
\* is still running.
C18_Witness ==
    /\ last = "frame_menu" /\ scene = SCENE_GAMEOVER
    /\ \E k \in EffectKinds : effects[k] > 0

\* C19: the scene leaves GAME only in the frame step of active play, never
\* by an input and never during prep: to CLEAR only with a track present and
\* more than its length plus the prep delay elapsed since start_time, to
\* GAMEOVER only with miss_count >= the miss limit.
C19_PhaseMachine ==
    [][(scene = SCENE_GAME /\ scene' # SCENE_GAME) =>
         /\ last' = "frame_play"
         /\ ~InPrep(now)
         /\ \/ /\ scene' = SCENE_CLEAR
               /\ BGM
               /\ now - start_time_s > BGM_LENGTH + START_PREP_DELAY
            \/ /\ scene' = SCENE_GAMEOVER
               /\ misses' >= Limit]_vars

\* C19 witness: the frame step has just ended a session with CLEAR.
C19_Witness ==
    /\ last = "frame_play"
    /\ scene = SCENE_CLEAR

\* C20 (as claimed): the user offset stays within [-1 s, +1 s].
C20_OffsetWithinOneSecond ==
    Abs(offset_seconds) <= TicksPerSec

\* the expiry condition as stated: now - target_time > OK_WINDOW * w + 0.01
PastGrace(n, t) ==
    (t - n.target_time) * 10 > OK_WINDOW * DIFF_WINDOW[DIFFICULTY] + GRACE_EPS * 10

\* C21: in a pass of the update-and-remove loop (main loop or render_game) a
\* real note of the list is removed iff now - target_time > OK_WINDOW * w +
\* 0.01 at the pass's clock value, no note just spawned is removed, and with
\* no decoy in the list miss_count grows by exactly the number of notes
\* removed (combo 0 when there is one): a note counted by the main loop is
\* gone when render_game runs its loop in the same frame.  Ticks and frames
\* without such a pass leave the list as it is.
C21_ExpiryCountsOnce ==
    [][/\ (last' \in {"frame_play", "render"}) =>
            LET gone == RealTargets(notes) \ RealTargets(notes')
            IN /\ \A i \in RealIdx(notes) :
                    PastGrace(notes[i], now') <=> notes[i].target_time \in gone
               /\ \A i \in RealIdx(notes') : ~PastGrace(notes'[i], now')
               /\ (spawned_target_times' \ spawned_target_times) \subseteq RealTargets(notes')
               /\ (DecoySeq(notes) = <<>> /\ DecoySeq(notes') = <<>>) =>
                    /\ misses' - misses = Cardinality(gone)
                    /\ (gone # {} => combo' = 0 /\ judge_text' = "MISS")
       /\ (last' \in {"tick", "frame_menu", "frame_prep"}) =>
            notes' = notes /\ misses' = misses]_vars

\* C21 witness: render_game has just run in a session without any hit, after
\* two notes expired: two misses, and two notes fewer in the list than were
\* spawned.
C21_Witness ==
    /\ last = "render" /\ scene = SCENE_GAME
    /\ inputs = 1
    /\ misses = 2
    /\ note_spawn_counter - Len(notes) = 2

\* C22: a hit with no live real note, or whose nearest live real note is
\* classified MISS, leaves combo 0, miss_count one higher and the note list
\* unchanged.
C22_MissedHitKeepsNotes ==
    [][(last' = "hit") =>
         ((RealIdx(notes) = {}
            \/ compute_judgement(Dist(notes, Nearest(notes, now), now), DIFFICULTY) = "MISS")
          => /\ combo' = 0
             /\ misses' = misses + 1
             /\ notes' = notes
             /\ judge_text' = "MISS")]_vars

\* C22 witness: a hit has just been judged MISS against a live real note,
\* which is still in the list.
C22_Witness ==
    /\ last = "hit" /\ judge_text = "MISS" /\ combo = 0 /\ misses >= 1
    /\ RealIdx(notes) # {}
    /\ compute_judgement(Dist(notes, Nearest(notes, now), now), DIFFICULTY) = "MISS"

\* C23 (as claimed): an effect duration leaves the course of the frame decay
\* only in a step that makes a gimmick-selection attempt, which sets it to
\* base * (1 + 1.5 * miss_count / miss_limit), and that value is never lower
\* than the duration the effect had just before the trigger.
C23_TriggerResetsUpward ==
    [][LET Expected(v) == IF last' \in FrameSteps THEN Decay(v, dt) ELSE v
       IN \A k \in EffectKinds :
            effects'[k] # Expected(effects[k]) =>
               /\ gimmick_attempts' > gimmick_attempts
               /\ effects'[k] = Intensified(EffectBase[k], misses)
               /\ effects'[k] >= Expected(effects[k])]_vars

DiffRank == [easy |-> 0, normal |-> 1, hard |-> 2]

\* C24: the user offset, the difficulty and hazard mode change only in steps
\* that begin and end in SETTINGS; while the scene stays GAME the session's
\* anchors (start_time, prep_end_time, beat anchor), the window scale and the
\* miss limit stay as they are; K_LEFT and K_RIGHT move the difficulty one
\* step and stay at easy and at hard.
C24_SettingsOnlyInSettings ==
    [][/\ (DIFFICULTY' # DIFFICULTY \/ offset_seconds' # offset_seconds
             \/ yakubi_mode' # yakubi_mode) =>
            (scene = SCENE_SETTINGS /\ scene' = SCENE_SETTINGS)
       /\ (scene = SCENE_GAME /\ scene' = SCENE_GAME) =>
            /\ UNCHANGED <<start_time_s, prep_end_time, next_beat_time>>
            /\ DIFF_WINDOW[DIFFICULTY'] = DIFF_WINDOW[DIFFICULTY]
            /\ MISS_LIMIT_MAP[DIFFICULTY'] = MISS_LIMIT_MAP[DIFFICULTY]
       /\ (last' = "difficulty_left") =>
            DiffRank[DIFFICULTY'] = Max(0, DiffRank[DIFFICULTY] - 1)
       /\ (last' = "difficulty_right") =>
            DiffRank[DIFFICULTY'] = Min(2, DiffRank[DIFFICULTY] + 1)
       /\ (last' \notin {"difficulty_left", "difficulty_right"}) =>
            DIFFICULTY' = DIFFICULTY]_vars

\* C24 witness: K_RIGHT pressed twice from normal in the settings screen:
\* the second press found hard and left it hard.
C24_Witness ==
    /\ scene = SCENE_SETTINGS /\ last = "difficulty_right"
    /\ inputs = 3
    /\ DIFFICULTY = "hard" /\ offset_seconds = 0 /\ ~yakubi_mode

\* C25: every update of a note assigns y = start_y when now <= spawn_time,
\* y = hit_y when now >= target_time and start_y + (hit_y - start_y) *
\* (now - spawn_time) / NOTE_TRAVEL_SEC in between, whatever the effect
\* durations are; from one update to a later one y does not decrease.
C25_NoteMotionLinear ==
    [][LET n == probe'.note
           t == probe'.t
           y == probe'.y
       IN probe' # probe =>
            /\ (t <= n.spawn_time) => y = START_Y * NOTE_TRAVEL_SEC
            /\ (t >= n.target_time) => y = HITLINE_Y * NOTE_TRAVEL_SEC
            /\ (t > n.spawn_time /\ t < n.target_time) =>
                 /\ y = START_Y * NOTE_TRAVEL_SEC + (HITLINE_Y - START_Y) * (t - n.spawn_time)
                 /\ y > START_Y * NOTE_TRAVEL_SEC /\ y < HITLINE_Y * NOTE_TRAVEL_SEC
            /\ (t >= probe.t) => y >= probe.y]_vars

\* C25 witness: a note updated after its target time while an effect is
\* active: y is at the hit line.
C25_Witness ==
    /\ probe.t > probe.note.target_time
    /\ probe.y = HITLINE_Y * NOTE_TRAVEL_SEC
    /\ \E k \in EffectKinds : effects[k] > 0

\* C26: with frames running and no input, a session in GAME eventually
\* leaves GAME, and with no audio track it eventually reaches GAMEOVER,
\* whatever the difficulty and hazard mode.
C26_IdleSessionEnds ==
    /\ (scene = SCENE_GAME) ~> (scene # SCENE_GAME)
    /\ (scene = SCENE_GAME /\ ~BGM) ~> (scene = SCENE_GAMEOVER)

\* C26 witness: a session on easy with no audio track has ended in GAMEOVER
\* on its 12th miss without any hit.
C26_Witness ==
    /\ scene = SCENE_GAMEOVER /\ last = "frame_play"
    /\ DIFFICULTY = "easy" /\ ~BGM
    /\ misses >= 12

StartSteps == {"start_click", "start_enter", "restart_click_gameover",
               "restart_click_clear", "restart_enter"}

\* C28: before and after every step spawn_index = note_spawn_counter = the
\* number of entries of spawned_target_times and combo <= note_spawn_counter;
\* spawn_index never decreases except in a step that starts a session.
C28_SpawnCountersAgree ==
    [][/\ spawn_index = note_spawn_counter
       /\ note_spawn_counter = Cardinality(spawned_target_times)
       /\ combo <= note_spawn_counter
       /\ spawn_index' = note_spawn_counter'
       /\ note_spawn_counter' = Cardinality(spawned_target_times')
       /\ combo' <= note_spawn_counter'
       /\ (last' \notin StartSteps) => spawn_index' >= spawn_index
       /\ (last' \in StartSteps) => spawn_index' = 0]_vars

\* C28 witness: the second successful hit in a row of a session, with more
\* notes spawned than hit.
C28_Witness ==
    /\ last = "hit" /\ scene = SCENE_GAME
    /\ combo = 2
    /\ spawn_index > combo
    /\ Len(notes) = spawn_index - combo - misses

====
